---- MODULE Spec2Model ----
(***************************************************************************)
(* Coffee Brewster: the reverse-brew calculator (lib/brewCalculator.ts)     *)
(* behind POST /api/reverse (reverse.controller.ts), with the user's       *)
(* cupSizeMl setting (settings.controller.ts).                             *)
(*                                                                         *)
(* Numbers.  The code computes with IEEE doubles that carry at most one    *)
(* decimal digit (toFixed(1)), so every mass and volume is held here as an *)
(* integer count of TENTHS (240 ml is 2400, 17.1 g is 171, 0.5 cups is 5). *)
(* Ratios are whole numbers.  Rounding is modelled as JavaScript does it:  *)
(* Math.round rounds halves towards +infinity, toFixed rounds the exact    *)
(* value of the double, so a decimal tie follows the rounding error of the *)
(* double division that produced it.                                       *)
(***************************************************************************)
EXTENDS Integers, Sequences, FiniteSets

\* ---------------------------------------------------------------- bounds
\* cups explored: 0, 0.5, ..., MaxCupsHalves / 2
MaxCupsHalves == 24
\* cup sizes explored besides the default and the two schema limits
NumCupSizes == 3
CupSizeStep == 25
\* target yields explored upwards from just below the schema minimum, in
\* steps of half a millilitre
NumTargets == 60

\* whole millilitres, grams or cups as tenths
Ml(n) == n * 10

\* ------------------------------------------------------ schema constants
MinCups == 5
MaxCups == Ml(12)
MinRatio == 8
MaxRatio == 20
MinTargetYieldMl == Ml(50)
MaxTargetYieldMl == Ml(3000)
MinCupSizeMl == Ml(100)
MaxCupSizeMl == Ml(1000)
DefaultCupSizeMl == Ml(240)

\* ------------------------------------------------------------- optionals
\* `x?: number` is <<>> when absent and <<x>> when present; Coalesce is `??`
None == <<>>
Some(x) == <<x>>
Coalesce(opt, dflt) == IF opt = None THEN dflt ELSE opt[1]

\* ------------------------------------------------------------ arithmetic
RECURSIVE PowMod(_, _, _)
\* b^n mod m
PowMod(b, n, m) == IF n = 0 THEN 1 % m ELSE (b * PowMod(b, n - 1, m)) % m

RECURSIVE Log2Floor(_, _)
\* the e >= 0 with 2^e <= y / R < 2^(e+1), for y >= R
Log2Floor(y, R) == IF y < 2 * R THEN 0 ELSE 1 + Log2Floor(y \div 2, R)

\* Sign of (the double y / R) - (the real y / R) for whole y >= R > 0: the
\* quotient is rounded to 53 significant bits, so the discarded part is
\* (y * 2^(52-e) mod R) / R of a unit in the last place.
DivisionError(y, R) ==
  LET e == Log2Floor(y, R)
      rem == ((y % R) * PowMod(2, 52 - e, R)) % R
  IN  IF rem = 0 THEN 0 ELSE IF 2 * rem < R THEN 0 - 1 ELSE 1

\* Math.round on tenths: nearest whole number, halves towards +infinity
MathRound(x) == ((x + 5) \div 10) * 10

\* +(y / R).toFixed(1) for a whole-ml yield y (tenths) and whole ratio R:
\* the nearest tenth of the double; on a decimal tie the double lies below
\* the tie exactly when the division rounded down.
ToFixed1(y, R) ==
  LET q == y \div R
      r == y % R
  IN  IF 2 * r < R THEN q
      ELSE IF 2 * r > R THEN q + 1
      ELSE IF DivisionError(y \div 10, R) < 0 THEN q ELSE q + 1

\* +(x).toFixed(0) for x given in hundredths; result in tenths.  The ties
\* the coefficients allow (x.5 grams times 1.5 or 2.2) are doubles at or
\* above the tie, which toFixed rounds up.
ToFixed0(hundredths) == ((hundredths + 50) \div 100) * 10

\* Math.round(remaining * f) for remaining in tenths and f in hundredths
\* (0.55, 0.45, 0.4, 0.3); result in tenths.
RoundFraction(remaining, f) == ((remaining * f + 500) \div 1000) * 10

\* ---------------------------------------------------------- method table
MethodKey == {"v60", "chemex", "aeropress", "french_press", "moka"}

METHOD_PRESETS ==
  [key \in MethodKey |->
     CASE key = "v60"          -> [key |-> key, defaultRatio |-> 15, bloom |-> TRUE,  pours |-> 2]
       [] key = "chemex"       -> [key |-> key, defaultRatio |-> 16, bloom |-> TRUE,  pours |-> 3]
       [] key = "aeropress"    -> [key |-> key, defaultRatio |-> 14, bloom |-> TRUE,  pours |-> 0]
       [] key = "french_press" -> [key |-> key, defaultRatio |-> 15, bloom |-> FALSE, pours |-> 0]
       [] key = "moka"         -> [key |-> key, defaultRatio |-> 10, bloom |-> FALSE, pours |-> 0]]

\* absorption coefficients, in tenths
ABS_COEF ==
  [key \in MethodKey |->
     CASE key = "v60"          -> 20
       [] key = "chemex"       -> 20
       [] key = "aeropress"    -> 15
       [] key = "french_press" -> 22
       [] key = "moka"         -> 8]

TEMP_RANGES ==
  [key \in MethodKey |->
     CASE key = "v60"          -> 94
       [] key = "chemex"       -> 94
       [] key = "aeropress"    -> 85
       [] key = "french_press" -> 95
       [] key = "moka"         -> 98]

GRIND_SUGGESTIONS ==
  [key \in MethodKey |->
     CASE key = "v60"          -> "Medium-fine"
       [] key = "chemex"       -> "Medium-coarse"
       [] key = "aeropress"    -> "Medium"
       [] key = "french_press" -> "Coarse"
       [] key = "moka"         -> "Fine-medium"]

FILTER_SUGGESTIONS ==
  [key \in MethodKey |->
     CASE key = "v60"          -> "V60 paper"
       [] key = "chemex"       -> "Chemex paper"
       [] key = "aeropress"    -> "Paper or metal"
       [] key = "french_press" -> "Metal mesh"
       [] key = "moka"         -> "Basket"]

\* ------------------------------------------------------------- planBrew
Min(a, b) == IF a < b THEN a ELSE b
Max(a, b) == IF a > b THEN a ELSE b

yieldTargetMl_IgnoresTarget(cups, cupSizeMl, targetYieldMl) ==
  MathRound((cups * cupSizeMl) \div 10)

\* Math.round(targetYieldMl ?? cups * cupSizeMl); cupSizeMl is whole ml, so
\* the product of the two tenths has at most one decimal
yieldTargetMlOf(cups, cupSizeMl, targetYieldMl) ==
  MathRound(Coalesce(targetYieldMl, (cups * cupSizeMl) \div 10))

ratio_AlwaysDefault(method, ratio) == method.defaultRatio

\* ratio ?? method.defaultRatio
ratioOf(method, ratio) == Coalesce(ratio, method.defaultRatio)

\* +(yieldTargetMl / R).toFixed(1)
coffeeOf(yieldTargetMl, R) == ToFixed1(yieldTargetMl, R)

absorption_PourOverCoefficient(key, coffee) == ToFixed0(coffee * ABS_COEF["v60"])

\* +(coffee * ABS_COEF[method.key]).toFixed(0)
absorptionOf(key, coffee) == ToFixed0(coffee * ABS_COEF[key])

bloomMl_NoUpperClamp(coffee) == Max(2 * coffee, Ml(30))

\* Math.min(Math.max(2 * coffee, 30), 60)
bloomMlOf(coffee) == Min(Max(2 * coffee, Ml(30)), Ml(60))

BloomStep_Late(bloomMl) ==
  [atSec |-> 45, volumeMl |-> MathRound(bloomMl), label |-> "Bloom"]

BloomStep(bloomMl) ==
  [atSec |-> 0, volumeMl |-> MathRound(bloomMl), label |-> "Bloom"]

V60Pours_SameShareTwice(remaining) ==
  << [atSec |-> 45,  volumeMl |-> RoundFraction(remaining, 55), label |-> "First pour"],
     [atSec |-> 105, volumeMl |-> RoundFraction(remaining, 55), label |-> "Second pour"] >>

V60Pours(remaining) ==
  << [atSec |-> 45,  volumeMl |-> RoundFraction(remaining, 55), label |-> "First pour"],
     [atSec |-> 105, volumeMl |-> RoundFraction(remaining, 45), label |-> "Second pour"] >>

ChemexPours_ThirdAtSecondOffset(remaining) ==
  << [atSec |-> 45,  volumeMl |-> RoundFraction(remaining, 40), label |-> "First pour"],
     [atSec |-> 105, volumeMl |-> RoundFraction(remaining, 30), label |-> "Second pour"],
     [atSec |-> 105, volumeMl |-> RoundFraction(remaining, 30), label |-> "Third pour"] >>

ChemexPours(remaining) ==
  << [atSec |-> 45,  volumeMl |-> RoundFraction(remaining, 40), label |-> "First pour"],
     [atSec |-> 105, volumeMl |-> RoundFraction(remaining, 30), label |-> "Second pour"],
     [atSec |-> 165, volumeMl |-> RoundFraction(remaining, 30), label |-> "Third pour"] >>

AeropressPours_LessMinimumBloom(remaining) ==
  << [atSec |-> 45, volumeMl |-> remaining - Ml(30), label |-> "Fill & steep"] >>

\* the one step whose volume is not passed through Math.round
AeropressPours(remaining) ==
  << [atSec |-> 45, volumeMl |-> remaining, label |-> "Fill & steep"] >>

FrenchPressPours_AfterBloomTime(waterTotal) ==
  << [atSec |-> 45, volumeMl |-> waterTotal, label |-> "Fill"] >>

FrenchPressPours(waterTotal) ==
  << [atSec |-> 0, volumeMl |-> waterTotal, label |-> "Fill"] >>

MokaPours(waterTotal) ==
  << [atSec |-> 0, volumeMl |-> waterTotal, label |-> "Assemble & heat"] >>

planBrew(method, cups, cupSizeMl, ratio, targetYieldMl) ==
  LET yieldTargetMl == yieldTargetMlOf(cups, cupSizeMl, targetYieldMl)
      R          == ratioOf(method, ratio)
      coffee     == coffeeOf(yieldTargetMl, R)
      absorption == absorptionOf(method.key, coffee)
      waterTotal == yieldTargetMl + absorption
      bloomMl    == IF method.bloom THEN Some(bloomMlOf(coffee)) ELSE None
      bloomSteps == IF method.bloom THEN << BloomStep(bloomMl[1]) >> ELSE << >>
      remaining  == waterTotal - Coalesce(bloomMl, 0)
      schedule   ==
        bloomSteps \o
          (CASE method.key = "v60"          -> V60Pours(remaining)
             [] method.key = "chemex"       -> ChemexPours(remaining)
             [] method.key = "aeropress"    -> AeropressPours(remaining)
             [] method.key = "french_press" -> FrenchPressPours(waterTotal)
             [] method.key = "moka"         -> MokaPours(waterTotal)
             [] OTHER                       -> << >>)
  IN  [coffeeGrams   |-> coffee,
       waterTotalMl  |-> waterTotal,
       yieldTargetMl |-> yieldTargetMl,
       bloomMl       |-> bloomMl,
       pours         |-> schedule,
       tempC         |-> TEMP_RANGES[method.key],
       grind         |-> GRIND_SUGGESTIONS[method.key],
       filter        |-> FILTER_SUGGESTIONS[method.key]]

\* ------------------------------------------------------- request schemas
reverseBrewSchema_NoCupsMinimum(b) ==
  /\ b.methodKey \in MethodKey
  /\ b.cups <= MaxCups
  /\ b.ratio /= None => (b.ratio[1] >= MinRatio /\ b.ratio[1] <= MaxRatio)
  /\ b.targetYieldMl /= None =>
       (b.targetYieldMl[1] >= MinTargetYieldMl /\ b.targetYieldMl[1] <= MaxTargetYieldMl)

\* reverseBrewSchema.parse succeeds
reverseBrewSchema(body) ==
  /\ body.methodKey \in MethodKey
  /\ body.cups >= MinCups /\ body.cups <= MaxCups
  /\ body.ratio /= None => (body.ratio[1] >= MinRatio /\ body.ratio[1] <= MaxRatio)
  /\ body.targetYieldMl /= None =>
       (body.targetYieldMl[1] >= MinTargetYieldMl /\ body.targetYieldMl[1] <= MaxTargetYieldMl)

\* updateSettingsSchema.parse succeeds (the cupSizeMl field): the values a
\* Settings row can hold
updateSettingsSchema(updates) ==
  updates.cupSizeMl /= None =>
    (updates.cupSizeMl[1] >= MinCupSizeMl /\ updates.cupSizeMl[1] <= MaxCupSizeMl)

\* ------------------------------------------------------- explored inputs
CupsExplored == {5 * h : h \in 0..MaxCupsHalves}

CupSizesExplored ==
  {MinCupSizeMl + Ml(k * CupSizeStep) : k \in 0..NumCupSizes}
    \cup {DefaultCupSizeMl, MaxCupSizeMl}

RatiosExplored == {None} \cup {Some(r) : r \in {0} \cup (MinRatio - 1)..(MaxRatio + 1)}

TargetsExplored ==
  {Some(MinTargetYieldMl - 5 + 5 * k) : k \in 0..NumTargets}
    \cup {Some(Ml(400)), Some(Ml(400) + 5), Some(MaxTargetYieldMl), Some(MaxTargetYieldMl + 5)}

MethodKeysExplored == MethodKey \cup {"espresso"}

Bodies ==
  [methodKey : MethodKeysExplored, cups : CupsExplored,
   ratio : RatiosExplored, targetYieldMl : {None}]
  \cup
  [methodKey : MethodKeysExplored, cups : {MinCups, 5 * MaxCupsHalves},
   ratio : RatiosExplored, targetYieldMl : TargetsExplored]

SettingsRows ==
  {None} \cup {Some(row) : row \in {r \in [cupSizeMl : CupSizesExplored, recommend : BOOLEAN] :
                                       updateSettingsSchema([cupSizeMl |-> Some(r.cupSizeMl)])}}

\* the brewMethod table: seeded with the five presets, or not seeded yet
BrewMethodTables == {MethodKey, {}}

\* --------------------------------------------------------- error handler
\* what the handlers throw
ZodError == [name |-> "ZodError", statusCode |-> 0]
AppError(statusCode) == [name |-> "AppError", statusCode |-> statusCode]
TypeError == [name |-> "TypeError", statusCode |-> 0]

\* middleware/error errorHandler: the status an error is answered with
errorHandler(error) ==
  CASE error.name = "AppError" -> error.statusCode
    [] error.name = "ZodError" -> 400
    [] OTHER                   -> 500

\* ---------------------------------------------------------- POST /api/reverse
RecommendationFields == {"tempC", "grind", "filter"}

ReverseRecipe_AlwaysRecommends(brewPlan, showRecommendations) == brewPlan

\* the `response` object: the recommendations are spread in only when
\* showRecommendations
ReverseRecipe(brewPlan, showRecommendations) ==
  IF showRecommendations
  THEN brewPlan
  ELSE [f \in (DOMAIN brewPlan) \ RecommendationFields |-> brewPlan[f]]

Failure(error) == [status |-> errorHandler(error), call |-> None, recipe |-> None]

\* calculateReverseBrew for a request of reqUser (None when the request
\* carried no cookie) with body b, given the user's Settings row and the
\* brewMethod table: the response and the planBrew call made for it
ReverseBrew(reqUser, b, userSettings, methods) ==
  IF ~reverseBrewSchema(b) THEN Failure(ZodError)
  ELSE IF reqUser = None THEN Failure(TypeError)
  ELSE LET cupSizeMl == IF userSettings = None THEN DefaultCupSizeMl
                        ELSE userSettings[1].cupSizeMl
           showRecommendations == IF userSettings = None THEN TRUE
                                  ELSE userSettings[1].recommend
       IN  IF b.methodKey \notin methods THEN Failure(AppError(404))
           ELSE LET method   == METHOD_PRESETS[b.methodKey]
                    brewPlan == planBrew(method, b.cups, cupSizeMl, b.ratio, b.targetYieldMl)
                IN  [status |-> 200,
                     call   |-> Some([method |-> method, cups |-> b.cups,
                                      cupSizeMl |-> cupSizeMl, ratio |-> b.ratio,
                                      targetYieldMl |-> b.targetYieldMl]),
                     recipe |-> Some(ReverseRecipe(brewPlan, showRecommendations))]

\* ----------------------------------------------------------------- state
VARIABLES
  settings,   \* the requesting user's Settings row: None or Some(row)
  brewMethod, \* the keys of the rows of the brewMethod table
  body,       \* the body of the POST /api/reverse request being served
  call,       \* the arguments planBrew was called with: None or Some(args)
  status,     \* HTTP status of the response, 0 while the request is pending
  recipe      \* the recipe of the response: None or Some(plan)

reverseVars == <<settings, brewMethod, body, call, status, recipe>>

\* the API server's tables and the request it is serving
VARIABLES
  users,         \* rows of the user table: [id, email]
  userSettings,  \* rows of the settings table: [userId, recommend, cupSizeMl]
  sessions,      \* rows of the brewSession table: [id, userId, rating]
  deleted,       \* the rows deleteSession has removed (history)
  inflight,      \* requests between their two database round trips
  resp           \* what the step just taken answered (op "none" if nothing)

serverVars == <<users, userSettings, sessions, deleted, inflight, resp>>

\* the web client's useSettings store and the server row behind it
VARIABLES
  storeSettings, \* useSettings.settings
  isLoading,     \* useSettings.isLoading
  storeError,    \* useSettings.error: None or Some(message)
  updating,      \* updateSettings calls awaiting api.updateSettings
  loading,       \* number of loadSettings calls awaiting api.getSettings
  serverRow,     \* the signed-in user's settings row on the server
  settled        \* how the promise settled in the step just taken

storeVars == <<storeSettings, isLoading, storeError, updating, loading, serverRow, settled>>

\* the web client's useAuth store
VARIABLES
  authUser,        \* useAuth.user: None or Some(user)
  isAuthenticated, \* useAuth.isAuthenticated
  authLoading,     \* useAuth.isLoading
  authError,       \* useAuth.error: None or Some(message)
  authCalls,       \* per action, the number of its calls awaiting the API
  authSettled      \* the call that settled in the auth step just taken

authVars == <<authUser, isAuthenticated, authLoading, authError, authCalls, authSettled>>

\* the Timer component
VARIABLES
  schedule,         \* props.schedule
  isRunning,
  isPaused,
  elapsedSec,
  currentStepIndex,
  actualPours,
  lastEvent,        \* the handler or callback that ran in the step just taken
  onFinishCall,     \* the arguments of the onFinish call of that step, if any
  onStepLog,        \* the onStep calls since the last Reset (history)
  markedAt,         \* per step, the elapsed time Mark Complete was pressed at
                    \* since the last Reset (history)
  interfered        \* Pause or Mark Complete was pressed since the last Reset

timerVars ==
  <<schedule, isRunning, isPaused, elapsedSec, currentStepIndex, actualPours,
    lastEvent, onFinishCall, onStepLog, markedAt, interfered>>

\* the BrewGuide route with its BrewConfig form
VARIABLES
  form,            \* what the user chose: method, ratio, cups or custom yield
  finishAt,        \* the elapsed time Finish will be pressed at
  guideStep,       \* BrewGuide.currentStep
  brewConfig,      \* BrewGuide.brewConfig: None or Some(config)
  timerElapsedSec, \* BrewGuide.timerElapsedSec
  sessionPayload,  \* the body sent to POST /api/sessions: None or Some(payload)
  saveStatus       \* the status it was answered with, 0 before

guideVars ==
  <<form, finishAt, guideStep, brewConfig, timerElapsedSec, sessionPayload, saveStatus>>

webVars == <<authVars, timerVars, guideVars>>

vars == <<reverseVars, serverVars, storeVars, webVars>>

InitReverse ==
  /\ settings \in SettingsRows
  /\ brewMethod \in BrewMethodTables
  /\ body \in Bodies
  /\ call = None
  /\ status = 0
  /\ recipe = None

\* POST /api/reverse by an authenticated user
calculateReverseBrew ==
  /\ status = 0
  /\ UNCHANGED <<settings, brewMethod, body, serverVars, storeVars, webVars>>
  /\ LET response == ReverseBrew(Some("user"), body, settings, brewMethod)
     IN  /\ status' = response.status
         /\ call' = response.call
         /\ recipe' = response.recipe

\* ============================================================ API server
\* The Express app of index.ts: /api/auth, /api/settings, /api/reverse and
\* /api/sessions over the users, settings and brewSession tables.  A handler
\* with two database round trips is two steps, with other requests free to
\* run in between.

\* sessions created in one behaviour
MaxSessions == 2
\* requests that may be between their two database round trips at once
MaxInflight == 2

Emails == {"ann@example.com", "bob@example.com"}
UserIds == 1..Cardinality(Emails)
SessionIds == 1..MaxSessions
Ratings == {1, 2}

NoResponse ==
  [op |-> "none", user |-> None, id |-> 0, email |-> "", parsed |-> TRUE,
   status |-> 0, data |-> {}, cookie |-> None, late |-> FALSE]

Respond(op, reqUser, id, st, data, cookie, late) ==
  [op |-> op, user |-> reqUser, id |-> id, email |-> "", parsed |-> TRUE,
   status |-> st, data |-> data, cookie |-> cookie, late |-> late]

Reject(op, reqUser, id, error, late) ==
  [Respond(op, reqUser, id, errorHandler(error), {}, None, late)
     EXCEPT !.parsed = error.name /= "ZodError"]

InitServer ==
  /\ users = {}
  /\ userSettings = {}
  /\ sessions = {}
  /\ deleted = {}
  /\ inflight = {}
  /\ resp = NoResponse

\* the cookies a client can hold: none, or the token of a registered user
Cookies == {None} \cup {Some(u.id) : u \in users}

\* middleware authenticate: without a token the request goes on with no
\* req.user; with one, req.user is the user row or the request ends with 401
authenticate(cookie) ==
  IF cookie = None THEN [error |-> None, user |-> None]
  ELSE IF \E u \in users : u.id = cookie[1]
       THEN [error |-> None, user |-> cookie]
       ELSE [error |-> Some(AppError(401)), user |-> None]

FreshUserId == Cardinality(users) + 1
FreshSessionId == Cardinality(sessions) + Cardinality({d.id : d \in deleted}) + 1

RegisterRequest(email) ==
  [op |-> "register", email |-> email, user |-> 0, id |-> 0, rating |-> 0, late |-> FALSE]

UpdateRequest(uid, id, rating, late) ==
  [op |-> "updateSession", email |-> "", user |-> uid, id |-> id, rating |-> rating,
   late |-> late]

\* POST /api/auth/register up to the findUnique on the email
registerFind(email) ==
  /\ IF \E u \in users : u.email = email
     THEN /\ resp' = [Reject("register", None, 0, AppError(409), FALSE)
                      EXCEPT !.email = email]
          /\ UNCHANGED inflight
     ELSE /\ Cardinality(inflight) < MaxInflight
          /\ inflight' = inflight \cup {RegisterRequest(email)}
          /\ resp' = NoResponse
  /\ UNCHANGED <<users, userSettings, sessions, deleted, reverseVars, storeVars, webVars>>

\* ... and from prisma.user.create on; email is unique in the user table
registerCreate(r) ==
  /\ r \in inflight /\ r.op = "register"
  /\ inflight' = inflight \ {r}
  /\ IF \E u \in users : u.email = r.email
     THEN /\ resp' = [Reject("register", None, 0, TypeError, FALSE)
                      EXCEPT !.email = r.email]
          /\ UNCHANGED <<users, userSettings>>
     ELSE /\ users' = users \cup {[id |-> FreshUserId, email |-> r.email]}
          /\ userSettings' = userSettings \cup
               {[userId |-> FreshUserId, recommend |-> TRUE, cupSizeMl |-> DefaultCupSizeMl]}
          /\ resp' = [Respond("register", None, 0, 201, {}, Some(FreshUserId), FALSE)
                      EXCEPT !.email = r.email]
  /\ UNCHANGED <<sessions, deleted, reverseVars, storeVars, webVars>>

\* GET /api/auth/me
me(cookie) ==
  LET auth == authenticate(cookie)
  IN  /\ resp' =
           IF auth.error /= None THEN Reject("me", None, 0, auth.error[1], FALSE)
           ELSE IF auth.user = None THEN Reject("me", None, 0, AppError(401), FALSE)
           ELSE Respond("me", auth.user, 0, 200,
                        {u \in users : u.id = auth.user[1]}
                          \cup {row \in userSettings : row.userId = auth.user[1]},
                        None, FALSE)
      /\ UNCHANGED <<users, userSettings, sessions, deleted, inflight, reverseVars, storeVars, webVars>>

\* GET /api/settings
getSettings(cookie) ==
  LET auth == authenticate(cookie)
      rows == {row \in userSettings : row.userId = auth.user[1]}
  IN  /\ resp' =
           IF auth.error /= None THEN Reject("getSettings", None, 0, auth.error[1], FALSE)
           ELSE IF auth.user = None THEN Reject("getSettings", None, 0, AppError(401), FALSE)
           ELSE IF rows = {} THEN Reject("getSettings", auth.user, 0, AppError(404), FALSE)
           ELSE Respond("getSettings", auth.user, 0, 200, rows, None, FALSE)
      /\ UNCHANGED <<users, userSettings, sessions, deleted, inflight, reverseVars, storeVars, webVars>>

\* PUT /api/settings with body {recommend}
putSettings(cookie, recommend) ==
  LET auth == authenticate(cookie)
  IN  /\ IF auth.error /= None \/ auth.user = None
         THEN /\ resp' = Reject("updateSettings", None, 0,
                                IF auth.error /= None THEN auth.error[1] ELSE AppError(401),
                                FALSE)
              /\ UNCHANGED userSettings
         ELSE LET uid == auth.user[1]
                  old == {row \in userSettings : row.userId = uid}
                  new == IF old = {}
                         THEN [userId |-> uid, recommend |-> recommend,
                               cupSizeMl |-> DefaultCupSizeMl]
                         ELSE [(CHOOSE row \in old : TRUE) EXCEPT !.recommend = recommend]
              IN  /\ userSettings' = (userSettings \ old) \cup {new}
                  /\ resp' = Respond("updateSettings", auth.user, 0, 200, {new}, None, FALSE)
      /\ UNCHANGED <<users, sessions, deleted, inflight, reverseVars, storeVars, webVars>>

ReverseSamples ==
  {[methodKey |-> "v60", cups |-> Ml(2), ratio |-> None, targetYieldMl |-> None],
   [methodKey |-> "v60", cups |-> 0, ratio |-> None, targetYieldMl |-> None]}

\* POST /api/reverse, as seen from the router
postReverse(cookie, b) ==
  LET auth == authenticate(cookie)
      rows == {row \in userSettings : row.userId = auth.user[1]}
      row  == IF auth.user = None \/ rows = {} THEN None
              ELSE Some(CHOOSE r \in rows : TRUE)
      out  == ReverseBrew(auth.user, b, row, MethodKey)
  IN  /\ resp' =
           IF auth.error /= None THEN Reject("reverse", None, 0, auth.error[1], FALSE)
           ELSE [Respond("reverse", auth.user, 0, out.status,
                         IF out.recipe = None THEN {} ELSE {out.recipe[1].waterTotalMl},
                         None, FALSE)
                   EXCEPT !.parsed = reverseBrewSchema(b)]
      /\ UNCHANGED <<users, userSettings, sessions, deleted, inflight, reverseVars, storeVars, webVars>>

\* GET /api/sessions
getSessions(cookie) ==
  LET auth == authenticate(cookie)
  IN  /\ resp' =
           IF auth.error /= None THEN Reject("getSessions", None, 0, auth.error[1], FALSE)
           ELSE IF auth.user = None THEN Reject("getSessions", None, 0, TypeError, FALSE)
           ELSE Respond("getSessions", auth.user, 0, 200,
                        {s \in sessions : s.userId = auth.user[1]}, None, FALSE)
      /\ UNCHANGED <<users, userSettings, sessions, deleted, inflight, reverseVars, storeVars, webVars>>

WasDeleted(id) == \E d \in deleted : d.id = id

FindOwned_AnyOwner(reqUser, id) == {s \in sessions : s.id = id}

\* prisma.brewSession.findFirst({ where: { id, userId: req.user.id } })
FindOwned(reqUser, id) == {s \in sessions : s.id = id /\ s.userId = reqUser[1]}

\* GET /api/sessions/:id
getSession(cookie, id) ==
  LET auth == authenticate(cookie)
      late == WasDeleted(id)
  IN  /\ resp' =
           IF auth.error /= None THEN Reject("getSession", None, id, auth.error[1], late)
           ELSE IF auth.user = None THEN Reject("getSession", None, id, TypeError, late)
           ELSE IF FindOwned(auth.user, id) = {}
                THEN Reject("getSession", auth.user, id, AppError(404), late)
                ELSE Respond("getSession", auth.user, id, 200, FindOwned(auth.user, id),
                             None, late)
      /\ UNCHANGED <<users, userSettings, sessions, deleted, inflight, reverseVars, storeVars, webVars>>

\* hundredths of a gram or millilitre, the unit of a session's amounts
Amount(n) == n * 100

MinDurationSec == 30
MaxDurationSec == 1800

\* createSessionSchema.parse succeeds; methodId is looked up by the handler
createSessionSchema(b) ==
  /\ b.durationSec >= MinDurationSec /\ b.durationSec <= MaxDurationSec
  /\ b.coffeeGrams >= Amount(5) /\ b.coffeeGrams <= Amount(200)
  /\ b.waterMl >= Amount(50) /\ b.waterMl <= Amount(3000)
  /\ b.yieldMl >= Amount(30) /\ b.yieldMl <= Amount(2500)
  /\ b.rating >= 1 /\ b.rating <= 5

\* updateSessionSchema = createSessionSchema.partial(), for a body {rating}
updateSessionSchema(updates) == updates.rating >= 1 /\ updates.rating <= 5

SessionBodies ==
  [methodKey : {"v60", "espresso"}, durationSec : {240}, coffeeGrams : {Amount(32)},
   waterMl : {Amount(544)}, yieldMl : {Amount(480)}, rating : Ratings \cup {9}]

\* POST /api/sessions
createSession(cookie, b) ==
  LET auth == authenticate(cookie)
      new  == [id |-> FreshSessionId, userId |-> auth.user[1], rating |-> b.rating]
  IN  /\ FreshSessionId <= MaxSessions
      /\ IF auth.error /= None
         THEN resp' = Reject("createSession", None, 0, auth.error[1], FALSE)
                /\ UNCHANGED sessions
         ELSE IF ~createSessionSchema(b)
         THEN resp' = Reject("createSession", auth.user, 0, ZodError, FALSE)
                /\ UNCHANGED sessions
         ELSE IF b.methodKey \notin MethodKey
         THEN resp' = Reject("createSession", auth.user, 0, AppError(400), FALSE)
                /\ UNCHANGED sessions
         ELSE IF auth.user = None
         THEN resp' = Reject("createSession", None, 0, TypeError, FALSE)
                /\ UNCHANGED sessions
         ELSE /\ sessions' = sessions \cup {new}
              /\ resp' = Respond("createSession", auth.user, new.id, 201, {new}, None, FALSE)
      /\ UNCHANGED <<users, userSettings, deleted, inflight, reverseVars, storeVars, webVars>>

\* PUT /api/sessions/:id up to the ownership check
updateSessionFind(cookie, id, rating) ==
  LET auth == authenticate(cookie)
      late == WasDeleted(id)
  IN  /\ IF auth.error /= None
         THEN resp' = Reject("updateSession", None, id, auth.error[1], late)
                /\ UNCHANGED inflight
         ELSE IF ~updateSessionSchema([rating |-> rating])
         THEN resp' = Reject("updateSession", auth.user, id, ZodError, late)
                /\ UNCHANGED inflight
         ELSE IF auth.user = None
         THEN resp' = Reject("updateSession", None, id, TypeError, late)
                /\ UNCHANGED inflight
         ELSE IF FindOwned(auth.user, id) = {}
         THEN resp' = Reject("updateSession", auth.user, id, AppError(404), late)
                /\ UNCHANGED inflight
         ELSE /\ Cardinality(inflight) < MaxInflight
              /\ inflight' = inflight \cup {UpdateRequest(auth.user[1], id, rating, late)}
              /\ resp' = NoResponse
      /\ UNCHANGED <<users, userSettings, sessions, deleted, reverseVars, storeVars, webVars>>

\* ... and prisma.brewSession.update({ where: { id } }), which throws when
\* the row has gone in between
updateSessionWrite(r) ==
  /\ r \in inflight /\ r.op = "updateSession"
  /\ inflight' = inflight \ {r}
  /\ LET old == {s \in sessions : s.id = r.id}
         new == {[s EXCEPT !.rating = r.rating] : s \in old}
     IN  IF old = {}
         THEN /\ resp' = Reject("updateSession", Some(r.user), r.id, TypeError, r.late)
              /\ UNCHANGED sessions
         ELSE /\ sessions' = (sessions \ old) \cup new
              /\ resp' = Respond("updateSession", Some(r.user), r.id, 200, new, None, r.late)
  /\ UNCHANGED <<users, userSettings, deleted, reverseVars, storeVars, webVars>>

DeleteOwned_ByIdOnly(reqUser, id) == {s \in sessions : s.id = id}

\* prisma.brewSession.deleteMany({ where: { id, userId: req.user.id } })
DeleteOwned(reqUser, id) == {s \in sessions : s.id = id /\ s.userId = reqUser[1]}

\* DELETE /api/sessions/:id
deleteSession(cookie, id) ==
  LET auth == authenticate(cookie)
      late == WasDeleted(id)
  IN  /\ IF auth.error /= None
         THEN resp' = Reject("deleteSession", None, id, auth.error[1], late)
                /\ UNCHANGED <<sessions, deleted>>
         ELSE IF auth.user = None
         THEN resp' = Reject("deleteSession", None, id, TypeError, late)
                /\ UNCHANGED <<sessions, deleted>>
         ELSE LET gone == DeleteOwned(auth.user, id)
              IN  IF gone = {}
                  THEN resp' = Reject("deleteSession", auth.user, id, AppError(404), late)
                         /\ UNCHANGED <<sessions, deleted>>
                  ELSE /\ sessions' = sessions \ gone
                       /\ deleted' = deleted \cup {[id |-> s.id, userId |-> s.userId] : s \in gone}
                       /\ resp' = Respond("deleteSession", auth.user, id, 200, {}, None, late)
      /\ UNCHANGED <<users, userSettings, inflight, reverseVars, storeVars, webVars>>

\* the /api/sessions router, for requests carrying one of the given cookies
sessionRoutes(cookies) ==
  \/ \E cookie \in cookies : getSessions(cookie)
  \/ \E cookie \in cookies, id \in SessionIds : getSession(cookie, id)
  \/ \E cookie \in cookies, b \in SessionBodies : createSession(cookie, b)
  \/ \E cookie \in cookies, id \in SessionIds, rating \in Ratings \cup {9} :
       updateSessionFind(cookie, id, rating)
  \/ \E cookie \in cookies, id \in SessionIds : deleteSession(cookie, id)

\* every router of the app; the session routes as an anonymous client sees them
NextServer ==
  \/ \E email \in Emails : registerFind(email)
  \/ \E r \in inflight : registerCreate(r)
  \/ \E cookie \in Cookies : me(cookie)
  \/ \E cookie \in Cookies : getSettings(cookie)
  \/ \E cookie \in Cookies, recommend \in BOOLEAN : putSettings(cookie, recommend)
  \/ \E cookie \in Cookies, b \in ReverseSamples : postReverse(cookie, b)
  \/ sessionRoutes({None})

\* two registered users, no session yet
InitSessions ==
  /\ users = {[id |-> 1, email |-> "ann@example.com"], [id |-> 2, email |-> "bob@example.com"]}
  /\ userSettings = {[userId |-> u, recommend |-> TRUE, cupSizeMl |-> DefaultCupSizeMl] :
                       u \in UserIds}
  /\ sessions = {}
  /\ deleted = {}
  /\ inflight = {}
  /\ resp = NoResponse

\* ===================================================== useSettings store
\* The zustand store of the web client.  loadSettings and updateSettings
\* await the API client, so each is a step up to the await and a step after.

\* updateSettings calls awaiting their response at once
MaxUpdating == 2
\* loadSettings calls awaiting their response at once
MaxLoading == 1

SettingsValues == [recommend : BOOLEAN, cupSizeMl : {Ml(240), Ml(300)}]

defaultSettings == [recommend |-> TRUE, cupSizeMl |-> DefaultCupSizeMl]

\* Partial<UserSettings>: each field present or not
UpdatesExplored ==
  {[recommend |-> Some(v), cupSizeMl |-> None] : v \in BOOLEAN}
    \cup {[recommend |-> None, cupSizeMl |-> Some(v)] : v \in {Ml(240), Ml(300)}}

\* { ...currentSettings, ...updates }
Merge(currentSettings, updates) ==
  [recommend |-> Coalesce(updates.recommend, currentSettings.recommend),
   cupSizeMl |-> Coalesce(updates.cupSizeMl, currentSettings.cupSizeMl)]

InitStore ==
  /\ storeSettings = defaultSettings
  /\ isLoading = FALSE
  /\ storeError = None
  /\ updating = {}
  /\ loading = 0
  /\ serverRow \in SettingsValues
  /\ settled = "none"

\* loadSettings up to await api.getSettings()
loadSettingsStart ==
  /\ loading < MaxLoading
  /\ loading' = loading + 1
  /\ isLoading' = TRUE
  /\ storeError' = None
  /\ settled' = "none"
  /\ UNCHANGED <<storeSettings, updating, serverRow, reverseVars, serverVars, webVars>>

\* ... and after it: the response carries the server row, or the call failed
loadSettingsDone(ok) ==
  /\ loading > 0
  /\ loading' = loading - 1
  /\ isLoading' = FALSE
  /\ IF ok
     THEN storeSettings' = serverRow /\ storeError' = None
     ELSE storeError' = Some("Failed to load settings") /\ UNCHANGED storeSettings
  /\ settled' = "resolved"
  /\ UNCHANGED <<updating, serverRow, reverseVars, serverVars, webVars>>

clearError ==
  /\ storeError' = None
  /\ settled' = "none"
  /\ UNCHANGED <<storeSettings, isLoading, updating, loading, serverRow,
                 reverseVars, serverVars, webVars>>

ResetSettings_ErrorOnly ==
  /\ storeError' = None
  /\ settled' = "none"
  /\ UNCHANGED <<storeSettings, isLoading, updating, loading, serverRow>>

\* what resetToDefaults does to the store
ResetSettings ==
  /\ storeSettings' = defaultSettings
  /\ storeError' = None
  /\ settled' = "none"
  /\ UNCHANGED <<isLoading, updating, loading, serverRow>>

resetToDefaults == ResetSettings /\ UNCHANGED <<reverseVars, serverVars, webVars>>

\* newSettings of updateSettings
Optimistic(currentSettings, updates) == Merge(currentSettings, updates)

\* updateSettings up to await api.updateSettings(updates)
updateSettingsStart(updates) ==
  LET currentSettings == storeSettings
      c == [currentSettings |-> currentSettings, updates |-> updates]
  IN  /\ Cardinality(updating) < MaxUpdating
      /\ c \notin updating
      /\ storeSettings' = Optimistic(currentSettings, updates)
      /\ storeError' = None
      /\ updating' = updating \cup {c}
      /\ settled' = "none"
      /\ UNCHANGED <<isLoading, loading, serverRow, reverseVars, serverVars, webVars>>

\* ... the try branch: the server stored the update and answered with its row
updateSettingsResolve(c) ==
  /\ c \in updating
  /\ updating' = updating \ {c}
  /\ serverRow' = Merge(serverRow, c.updates)
  /\ storeSettings' = serverRow'
  /\ storeError' = None
  /\ settled' = "resolved"
  /\ UNCHANGED <<isLoading, loading, reverseVars, serverVars, webVars>>

Rollback_KeepsCurrent(c) == storeSettings

\* the settings the catch branch sets
Rollback(c) == c.currentSettings

\* ... the catch branch: the request failed, before or after the server
\* stored the update
updateSettingsReject(c, stored) ==
  /\ c \in updating
  /\ updating' = updating \ {c}
  /\ serverRow' = IF stored THEN Merge(serverRow, c.updates) ELSE serverRow
  /\ storeSettings' = Rollback(c)
  /\ storeError' = Some("Failed to update settings")
  /\ settled' = "rejected"
  /\ UNCHANGED <<isLoading, loading, reverseVars, serverVars, webVars>>

NextStore ==
  \/ loadSettingsStart
  \/ \E ok \in BOOLEAN : loadSettingsDone(ok)
  \/ clearError
  \/ resetToDefaults
  \/ \E updates \in UpdatesExplored : updateSettingsStart(updates)
  \/ \E c \in updating : updateSettingsResolve(c)
  \/ \E c \in updating, stored \in BOOLEAN : updateSettingsReject(c, stored)

\* ========================================================= useAuth store
\* The zustand store of the web client's session.  Each action awaits the
\* API client once, so it is a step up to the await and a step after.

\* useAuth calls awaiting their response at once
MaxAuthCalls == 2

AuthActions == {"login", "register", "logout", "checkAuth"}
AuthUsersExplored == {"ann", "bob"}

InitAuth ==
  /\ authUser = None
  /\ isAuthenticated = FALSE
  /\ authLoading = TRUE
  /\ authError = None
  /\ authCalls = [a \in AuthActions |-> 0]
  /\ authSettled = "none"

RECURSIVE SumCalls(_, _)
SumCalls(calls, actions) ==
  IF actions = {} THEN 0
  ELSE LET a == CHOOSE x \in actions : TRUE
       IN  calls[a] + SumCalls(calls, actions \ {a})

\* set({ isLoading: true, error: null }) and the await; logout leaves error
authStart(a) ==
  /\ SumCalls(authCalls, AuthActions) < MaxAuthCalls
  /\ authCalls' = [authCalls EXCEPT ![a] = @ + 1]
  /\ authLoading' = TRUE
  /\ authError' = IF a = "logout" THEN authError ELSE None
  /\ authSettled' = "none"
  /\ UNCHANGED <<authUser, isAuthenticated>>
  /\ UNCHANGED <<reverseVars, serverVars, storeVars, timerVars, guideVars>>

\* set({ user: response.user, isAuthenticated: true, isLoading: false, error: null })
SetSignedIn(u) ==
  /\ authUser' = Some(u)
  /\ isAuthenticated' = TRUE
  /\ authLoading' = FALSE
  /\ authError' = None

SetSignedOut_KeepsUser(message) ==
  /\ isAuthenticated' = FALSE
  /\ authLoading' = FALSE
  /\ authError' = message
  /\ UNCHANGED authUser

\* set({ user: null, isAuthenticated: false, isLoading: false, error })
SetSignedOut(message) ==
  /\ authUser' = None
  /\ isAuthenticated' = FALSE
  /\ authLoading' = FALSE
  /\ authError' = message

Settle(a) ==
  /\ authCalls[a] > 0
  /\ authCalls' = [authCalls EXCEPT ![a] = @ - 1]
  /\ authSettled' = a

\* login and register after the await: response is None when the request
\* failed or carried no user, and the promise then rejects
signInDone(a, response) ==
  /\ a \in {"login", "register"}
  /\ Settle(a)
  /\ IF response /= None THEN SetSignedIn(response[1])
     ELSE SetSignedOut(Some("Request failed"))
  /\ UNCHANGED <<reverseVars, serverVars, storeVars, timerVars, guideVars>>

\* logout after the await, whether api.logout() resolved or threw
logoutDone ==
  /\ Settle("logout")
  /\ SetSignedOut(None)
  /\ ResetSettings
  /\ UNCHANGED <<reverseVars, serverVars, timerVars, guideVars>>

\* checkAuth after the await
checkAuthDone(response) ==
  /\ Settle("checkAuth")
  /\ IF response /= None THEN SetSignedIn(response[1]) ELSE SetSignedOut(None)
  /\ UNCHANGED <<reverseVars, serverVars, storeVars, timerVars, guideVars>>

clearAuthError ==
  /\ authError' = None
  /\ authSettled' = "none"
  /\ UNCHANGED <<authUser, isAuthenticated, authLoading, authCalls>>
  /\ UNCHANGED <<reverseVars, serverVars, storeVars, timerVars, guideVars>>

ApiUsers == {None} \cup {Some(u) : u \in AuthUsersExplored}

NextAuth ==
  \/ \E a \in AuthActions : authStart(a)
  \/ \E a \in {"login", "register"}, response \in ApiUsers : signInDone(a, response)
  \/ logoutDone
  \/ \E response \in ApiUsers : checkAuthDone(response)
  \/ clearAuthError

\* ================================================================= Timer
\* The Timer component: its five pieces of state, the interval callback and
\* the button handlers, each enabled when its button is rendered.

\* seconds the interval may count up to
MaxElapsed == 5

PourStep(atSec, volumeMl, label) == [atSec |-> atSec, volumeMl |-> volumeMl, label |-> label]

\* props.schedule: the shapes planBrew produces, on a short time scale
SchedulesExplored ==
  { << PourStep(0, 60, "Bloom"), PourStep(2, 266, "First pour"), PourStep(4, 218, "Second pour") >>,
    << PourStep(0, 34, "Bloom"), PourStep(3, 232, "Fill & steep") >>,
    << PourStep(0, 550, "Fill") >>,
    << PourStep(1, 300, "First pour"), PourStep(3, 244, "Second pour") >> }

\* schedule.map(step => ({ scheduledAtSec: step.atSec, actualAtSec: step.atSec,
\*                          ..., completed: false }))
InitialPours(steps) ==
  [i \in 1..Len(steps) |->
     [scheduledAtSec |-> steps[i].atSec, actualAtSec |-> steps[i].atSec,
      volumeMl |-> steps[i].volumeMl, label |-> steps[i].label, completed |-> FALSE]]

InitTimer ==
  /\ schedule \in SchedulesExplored
  /\ isRunning = FALSE
  /\ isPaused = FALSE
  /\ elapsedSec = 0
  /\ currentStepIndex = 0
  /\ actualPours = InitialPours(schedule)
  /\ lastEvent = "mount"
  /\ onFinishCall = None
  /\ onStepLog = << >>
  /\ markedAt = [i \in 1..Len(schedule) |-> None]
  /\ interfered = FALSE

NotTimer == <<reverseVars, serverVars, storeVars, authVars, guideVars>>

handleStart ==
  /\ ~isRunning
  /\ isRunning' = TRUE
  /\ isPaused' = FALSE
  /\ lastEvent' = "start"
  /\ onFinishCall' = None
  /\ UNCHANGED <<schedule, elapsedSec, currentStepIndex, actualPours, onStepLog,
                 markedAt, interfered>>
  /\ UNCHANGED NotTimer

handlePause ==
  /\ isRunning
  /\ isPaused' = ~isPaused
  /\ lastEvent' = "pause"
  /\ onFinishCall' = None
  /\ interfered' = TRUE
  /\ UNCHANGED <<schedule, isRunning, elapsedSec, currentStepIndex, actualPours,
                 onStepLog, markedAt>>
  /\ UNCHANGED NotTimer

handleReset ==
  /\ isRunning
  /\ isRunning' = FALSE
  /\ isPaused' = FALSE
  /\ elapsedSec' = 0
  /\ currentStepIndex' = 0
  /\ actualPours' = [i \in 1..Len(actualPours) |-> [actualPours[i] EXCEPT !.completed = FALSE]]
  /\ lastEvent' = "reset"
  /\ onFinishCall' = None
  /\ onStepLog' = << >>
  /\ markedAt' = [i \in 1..Len(schedule) |-> None]
  /\ interfered' = FALSE
  /\ UNCHANGED schedule
  /\ UNCHANGED NotTimer

TickEnabled_WhilePaused == isRunning

\* the interval exists while isRunning && !isPaused
TickEnabled == isRunning /\ ~isPaused

FindStep_AnyIndex(newElapsed) ==
  {i \in 0..(Len(schedule) - 1) : schedule[i + 1].atSec = newElapsed}

\* the indices schedule.find looks at: step.atSec === newElapsed &&
\* index >= currentStepIndex
FindStep(newElapsed) ==
  {i \in 0..(Len(schedule) - 1) :
     schedule[i + 1].atSec = newElapsed /\ i >= currentStepIndex}

MinOf(S) == CHOOSE i \in S : \A j \in S : i <= j

\* the interval callback
tick ==
  /\ TickEnabled
  /\ elapsedSec < MaxElapsed
  /\ LET newElapsed == elapsedSec + 1
         found      == FindStep(newElapsed)
     IN  /\ elapsedSec' = newElapsed
         /\ IF found /= {}
            THEN /\ currentStepIndex' = MinOf(found)
                 /\ onStepLog' = Append(onStepLog,
                                        [stepIndex |-> MinOf(found), elapsedSec |-> newElapsed])
            ELSE UNCHANGED <<currentStepIndex, onStepLog>>
  /\ lastEvent' = "tick"
  /\ onFinishCall' = None
  /\ UNCHANGED <<schedule, isRunning, isPaused, actualPours, markedAt, interfered>>
  /\ UNCHANGED NotTimer

\* Mark Complete, rendered while running for the current step and disabled
\* once that step is completed
handleStepComplete(stepIndex) ==
  /\ isRunning
  /\ stepIndex = currentStepIndex
  /\ stepIndex + 1 \in 1..Len(schedule)
  /\ ~actualPours[stepIndex + 1].completed
  /\ actualPours' = [actualPours EXCEPT ![stepIndex + 1] =
                       [@ EXCEPT !.completed = TRUE, !.actualAtSec = elapsedSec]]
  /\ currentStepIndex' = IF stepIndex < Len(schedule) - 1 THEN stepIndex + 1
                         ELSE currentStepIndex
  /\ lastEvent' = "complete"
  /\ onFinishCall' = None
  /\ markedAt' = [markedAt EXCEPT ![stepIndex + 1] = Some(elapsedSec)]
  /\ interfered' = TRUE
  /\ UNCHANGED <<schedule, isRunning, isPaused, elapsedSec, onStepLog>>
  /\ UNCHANGED NotTimer

CompletedPours_OnlyMarked(pours) == pours

\* completedPours of handleFinish
CompletedPours(pours) ==
  [i \in 1..Len(pours) |->
     IF pours[i].completed THEN pours[i]
     ELSE [pours[i] EXCEPT !.completed = TRUE, !.actualAtSec = pours[i].scheduledAtSec]]

handleFinish ==
  /\ isRunning
  /\ isRunning' = FALSE
  /\ isPaused' = FALSE
  /\ lastEvent' = "finish"
  /\ onFinishCall' = Some([elapsedSec |-> elapsedSec, pours |-> CompletedPours(actualPours)])
  /\ UNCHANGED <<schedule, elapsedSec, currentStepIndex, actualPours, onStepLog,
                 markedAt, interfered>>
  /\ UNCHANGED NotTimer

NextTimer ==
  \/ handleStart
  \/ handlePause
  \/ handleReset
  \/ tick
  \/ \E stepIndex \in 0..(Len(schedule) - 1) : handleStepComplete(stepIndex)
  \/ handleFinish

\* ============================================== BrewGuide and BrewConfig
\* The brew wizard of the web client.  The browser recomputes the recipe in
\* BrewConfig; its waters are kept in hundredths of a millilitre here, since
\* the absorption is not rounded there.

Hundredths(tenths) == tenths * 10

\* +(targetYield / ratio).toFixed(1) for a yield in tenths that may end in
\* half a millilitre: ToFixed1, with the tie decided by the division of the
\* doubled yield by the doubled ratio (the same double)
ConfigCoffee(targetYield, ratio) ==
  LET q == targetYield \div ratio
      r == targetYield % ratio
  IN  IF 2 * r < ratio THEN q
      ELSE IF 2 * r > ratio THEN q + 1
      ELSE IF DivisionError(targetYield \div 5, 2 * ratio) < 0 THEN q ELSE q + 1

\* calculatedCoffee * (absorptionCoef[method.key] || 2.0), in hundredths
ConfigAbsorption(key, calculatedCoffee) == calculatedCoffee * ABS_COEF[key]

\* Math.round(remaining * f) for remaining in hundredths and f in hundredths;
\* result in hundredths
ConfigShare(remaining, f) == ((remaining * f + 5000) \div 10000) * 100

\* the calculation effect of BrewConfig
BrewConfigEffect(f) ==
  LET targetYield == IF f.customYield THEN Coalesce(f.yieldMl, 0)
                     ELSE (f.cups * f.cupSizeMl) \div 10
      calculatedCoffee == ConfigCoffee(targetYield, f.ratio)
      totalWater == Hundredths(targetYield) + ConfigAbsorption(f.method.key, calculatedCoffee)
      bloomSteps ==
        IF f.method.bloom
        THEN << [atSec |-> 0, volumeMl |-> Hundredths(MathRound(bloomMlOf(calculatedCoffee))),
                 label |-> "Bloom"] >>
        ELSE << >>
      remaining == totalWater - (IF bloomSteps = << >> THEN 0 ELSE bloomSteps[1].volumeMl)
      newSchedule ==
        bloomSteps \o
          (CASE f.method.key = "v60" ->
                  << [atSec |-> 45,  volumeMl |-> ConfigShare(remaining, 55), label |-> "First pour"],
                     [atSec |-> 105, volumeMl |-> ConfigShare(remaining, 45), label |-> "Second pour"] >>
             [] f.method.key = "chemex" ->
                  << [atSec |-> 45,  volumeMl |-> ConfigShare(remaining, 40), label |-> "First pour"],
                     [atSec |-> 105, volumeMl |-> ConfigShare(remaining, 30), label |-> "Second pour"],
                     [atSec |-> 165, volumeMl |-> ConfigShare(remaining, 30), label |-> "Third pour"] >>
             [] f.method.key = "aeropress" ->
                  << [atSec |-> 45, volumeMl |-> remaining, label |-> "Fill & steep"] >>
             [] f.method.key = "french_press" ->
                  << [atSec |-> 0, volumeMl |-> totalWater, label |-> "Fill"] >>
             [] f.method.key = "moka" ->
                  << [atSec |-> 0, volumeMl |-> totalWater, label |-> "Assemble & heat"] >>
             [] OTHER -> << >>)
  IN  [ratio |-> f.ratio, cups |-> f.cups, customYield |-> f.customYield,
       yieldMl |-> f.yieldMl, coffeeGrams |-> calculatedCoffee,
       waterMl |-> totalWater, schedule |-> newSchedule]

\* sessionPayload of handleSaveSession (amounts in hundredths)
SessionPayload(methodKey, config, cupSizeMl, durationSec) ==
  [methodKey   |-> methodKey,
   durationSec |-> durationSec,
   coffeeGrams |-> Hundredths(config.coffeeGrams),
   waterMl     |-> config.waterMl,
   yieldMl     |-> IF config.customYield THEN Hundredths(Coalesce(config.yieldMl, 0))
                   ELSE config.cups * cupSizeMl,
   rating      |-> 1]

\* custom yields explored
YieldsExplored ==
  {Ml(50), Ml(60), Ml(100), Ml(480), Ml(2500), Ml(2510), Ml(3000)}

\* in-range form values: the ratio slider at whole numbers, cups in halves
\* with the cup size of the settings, or a custom yield
FormsExplored ==
  [method : {METHOD_PRESETS[k] : k \in MethodKey}, ratio : MinRatio..MaxRatio,
   customYield : {FALSE}, cups : {c \in CupsExplored : c >= MinCups /\ c <= MaxCups},
   yieldMl : {Some(Ml(480))}, cupSizeMl : {MinCupSizeMl, DefaultCupSizeMl, MaxCupSizeMl}]
    \cup
  [method : {METHOD_PRESETS[k] : k \in MethodKey}, ratio : MinRatio..MaxRatio,
   customYield : {TRUE}, cups : {Ml(2)},
   yieldMl : {Some(y) : y \in YieldsExplored}, cupSizeMl : {DefaultCupSizeMl}]

\* elapsed times the Timer reports: Finish is rendered whenever it runs
ElapsedExplored ==
  {0, MinDurationSec - 1, MinDurationSec, 240, MaxDurationSec, MaxDurationSec + 1}

InitGuide ==
  /\ form \in FormsExplored
  /\ finishAt \in ElapsedExplored
  /\ guideStep = "method"
  /\ brewConfig = None
  /\ timerElapsedSec = 0
  /\ sessionPayload = None
  /\ saveStatus = 0

NotGuide == <<reverseVars, serverVars, storeVars, authVars, timerVars>>

handleMethodSelect ==
  /\ guideStep = "method"
  /\ guideStep' = "configure"
  /\ UNCHANGED <<form, finishAt, brewConfig, timerElapsedSec, sessionPayload, saveStatus>>
  /\ UNCHANGED NotGuide

\* BrewConfig mounts, its effect runs and calls onConfigChange
handleConfigChange ==
  /\ guideStep = "configure"
  /\ brewConfig = None
  /\ brewConfig' = Some(BrewConfigEffect(form))
  /\ UNCHANGED <<form, finishAt, guideStep, timerElapsedSec, sessionPayload, saveStatus>>
  /\ UNCHANGED NotGuide

\* the button rendered once brewConfig is set
continueToSchedule ==
  /\ guideStep = "configure"
  /\ brewConfig /= None
  /\ guideStep' = "schedule"
  /\ UNCHANGED <<form, finishAt, brewConfig, timerElapsedSec, sessionPayload, saveStatus>>
  /\ UNCHANGED NotGuide

handleStartBrew ==
  /\ guideStep = "schedule"
  /\ guideStep' = "timer"
  /\ UNCHANGED <<form, finishAt, brewConfig, timerElapsedSec, sessionPayload, saveStatus>>
  /\ UNCHANGED NotGuide

\* the Timer's onFinish
handleTimerFinish(elapsed) ==
  /\ guideStep = "timer"
  /\ timerElapsedSec' = elapsed
  /\ guideStep' = "session"
  /\ UNCHANGED <<form, finishAt, brewConfig, sessionPayload, saveStatus>>
  /\ UNCHANGED NotGuide

\* the payload is posted by a signed-in user for a method of the table, so
\* createSession answers by what createSessionSchema.parse makes of it
handleSaveSession ==
  /\ guideStep = "session"
  /\ saveStatus = 0
  /\ brewConfig /= None
  /\ LET payload == SessionPayload(form.method.key, brewConfig[1], form.cupSizeMl,
                                   timerElapsedSec)
     IN  /\ sessionPayload' = Some(payload)
         /\ saveStatus' = IF createSessionSchema(payload) THEN 201
                          ELSE errorHandler(ZodError)
  /\ UNCHANGED <<form, finishAt, guideStep, brewConfig, timerElapsedSec>>
  /\ UNCHANGED NotGuide

NextGuide ==
  \/ handleMethodSelect
  \/ handleConfigChange
  \/ continueToSchedule
  \/ handleStartBrew
  \/ handleTimerFinish(finishAt)
  \/ handleSaveSession

\* ======================================================== specifications
\* Each specification runs one component and holds the others at rest.

IdleReverse ==
  /\ settings = None
  /\ brewMethod = MethodKey
  /\ body = [methodKey |-> "v60", cups |-> Ml(2), ratio |-> None, targetYieldMl |-> None]
  /\ call = None
  /\ status = 0
  /\ recipe = None

IdleStore ==
  /\ storeSettings = defaultSettings
  /\ isLoading = FALSE
  /\ storeError = None
  /\ updating = {}
  /\ loading = 0
  /\ serverRow = defaultSettings
  /\ settled = "none"

IdleTimer ==
  /\ schedule = << >>
  /\ isRunning = FALSE
  /\ isPaused = FALSE
  /\ elapsedSec = 0
  /\ currentStepIndex = 0
  /\ actualPours = << >>
  /\ lastEvent = "mount"
  /\ onFinishCall = None
  /\ onStepLog = << >>
  /\ markedAt = << >>
  /\ interfered = FALSE

IdleGuide ==
  /\ form = [method |-> METHOD_PRESETS["v60"], ratio |-> 15, customYield |-> FALSE,
             cups |-> Ml(2), yieldMl |-> Some(Ml(480)), cupSizeMl |-> DefaultCupSizeMl]
  /\ finishAt = 0
  /\ guideStep = "method"
  /\ brewConfig = None
  /\ timerElapsedSec = 0
  /\ sessionPayload = None
  /\ saveStatus = 0

IdleWeb == InitAuth /\ IdleTimer /\ IdleGuide

Init == InitReverse /\ InitServer /\ IdleStore /\ IdleWeb

Next == calculateReverseBrew

Spec == Init /\ [][Next]_vars

InitApi == IdleReverse /\ InitServer /\ IdleStore /\ IdleWeb

SpecServer == InitApi /\ [][NextServer]_vars

NextSessions ==
  \/ sessionRoutes(Cookies)
  \/ \E r \in inflight : updateSessionWrite(r)

InitTwoUsers == IdleReverse /\ InitSessions /\ IdleStore /\ IdleWeb

SpecSessions == InitTwoUsers /\ [][NextSessions]_vars

InitClient == IdleReverse /\ InitServer /\ InitStore /\ IdleWeb

SpecStore == InitClient /\ [][NextStore]_vars

\* the store in step with the server, every request either stored and
\* answered or refused
InitInStep == IdleReverse /\ InitServer /\ IdleStore /\ IdleWeb

NextOverlap ==
  \/ \E updates \in UpdatesExplored : updateSettingsStart(updates)
  \/ \E c \in updating : updateSettingsResolve(c)
  \/ \E c \in updating : updateSettingsReject(c, FALSE)

SpecOverlap == InitInStep /\ [][NextOverlap]_vars

\* the two stores of the web client side by side
InitStores == IdleReverse /\ InitServer /\ InitStore /\ InitAuth /\ IdleTimer /\ IdleGuide

\* useAuth, with the settings store loading what the server holds
NextStores ==
  \/ NextAuth
  \/ loadSettingsStart
  \/ \E ok \in BOOLEAN : loadSettingsDone(ok)

SpecAuth == InitStores /\ [][NextStores]_vars

InitMounted == IdleReverse /\ InitServer /\ IdleStore /\ InitAuth /\ InitTimer /\ IdleGuide

SpecTimer == InitMounted /\ [][NextTimer]_vars

InitWizard == IdleReverse /\ InitServer /\ IdleStore /\ InitAuth /\ IdleTimer /\ InitGuide

SpecGuide == InitWizard /\ [][NextGuide]_vars

\* ================================================================ claims
Planned == status = 200
Plan == recipe[1]
Args == call[1]

Abs(x) == IF x < 0 THEN 0 - x ELSE x

RECURSIVE SumVolumeMl(_)
SumVolumeMl(pours) ==
  IF pours = << >> THEN 0 ELSE pours[1].volumeMl + SumVolumeMl(Tail(pours))

BloomingKeys == {"v60", "chemex", "aeropress"}
ImmersionKeys == {"french_press", "moka"}

\* C1 (as claimed): for every method and valid request the volumes of the
\* pour steps add up to waterTotalMl exactly.
C1_PoursSumToWaterTotal ==
  Planned => SumVolumeMl(Plan.pours) = Plan.waterTotalMl

\* C2: for every method and valid request the sum of the pour volumes differs
\* from waterTotalMl by at most one millilitre per pour step.
C2_PoursSumWithinStepCount ==
  Planned => Abs(SumVolumeMl(Plan.pours) - Plan.waterTotalMl) <= Ml(Len(Plan.pours))

\* a multi-pour plan whose per-step rounding made the sum drift
C2_Witness ==
  /\ Planned
  /\ Len(Plan.pours) >= 3
  /\ SumVolumeMl(Plan.pours) /= Plan.waterTotalMl

\* C3: blooming methods (v60, chemex, aeropress) start with a "Bloom" step at
\* second 0; french_press and moka have no bloomMl and no "Bloom" step.
C3_BloomPresence ==
  Planned =>
    /\ Args.method.key \in BloomingKeys =>
         (Plan.pours[1].label = "Bloom" /\ Plan.pours[1].atSec = 0)
    /\ Args.method.key \in ImmersionKeys =>
         (Plan.bloomMl = None /\ \A i \in 1..Len(Plan.pours) : Plan.pours[i].label /= "Bloom")

C3_Witness ==
  /\ Planned
  /\ Args.method.key = "aeropress"
  /\ Len(Plan.pours) = 2
  /\ Plan.bloomMl /= None

\* C4: a bloomMl that is present lies in [30, 60]: 30 when twice the coffee is
\* below 30, 60 when it is above 60, and twice the coffee otherwise.
C4_BloomClamp ==
  (Planned /\ Plan.bloomMl /= None) =>
    LET b == Plan.bloomMl[1]
        twice == 2 * Plan.coffeeGrams
    IN  /\ b >= Ml(30) /\ b <= Ml(60)
        /\ twice < Ml(30) => b = Ml(30)
        /\ twice > Ml(60) => b = Ml(60)
        /\ (twice >= Ml(30) /\ twice <= Ml(60)) => b = twice

\* the upper clamp is active
C4_Witness ==
  /\ Planned
  /\ Plan.bloomMl /= None
  /\ 2 * Plan.coffeeGrams > Ml(60)

\* C5 (as claimed): a supplied targetYieldMl, whole or not, is returned
\* unchanged as yieldTargetMl.
C5_YieldEqualsSuppliedTarget ==
  (Planned /\ Args.targetYieldMl /= None) =>
    Plan.yieldTargetMl = Args.targetYieldMl[1]

\* C5 (amended): a supplied targetYieldMl is returned rounded to the nearest
\* whole millilitre, halves upwards, whatever cups and cupSizeMl are.
C5_YieldIsRoundedTarget ==
  (Planned /\ Args.targetYieldMl /= None) =>
    LET t == Args.targetYieldMl[1]
        y == Plan.yieldTargetMl
    IN  /\ y % 10 = 0
        /\ t - 5 < y /\ y <= t + 5

\* a fractional target that differs from cups * cupSizeMl
C5_Witness ==
  /\ Planned
  /\ Args.targetYieldMl /= None
  /\ Args.targetYieldMl[1] % 10 /= 0
  /\ Args.cups * Args.cupSizeMl /= 10 * Args.targetYieldMl[1]
  /\ Plan.yieldTargetMl /= MathRound((Args.cups * Args.cupSizeMl) \div 10)

\* C6: coffeeGrams is yieldTargetMl divided by the supplied ratio, or by
\* method.defaultRatio when none is supplied, to the nearest tenth of a gram.
C6_RatioOverride ==
  Planned =>
    LET R == IF Args.ratio /= None THEN Args.ratio[1] ELSE Args.method.defaultRatio
    IN  2 * Abs(Plan.coffeeGrams * R - Plan.yieldTargetMl) <= R

\* a supplied ratio under which the default ratio would give another mass
C6_Witness ==
  /\ Planned
  /\ Args.ratio /= None
  /\ Args.ratio[1] /= Args.method.defaultRatio
  /\ 2 * Abs(Plan.coffeeGrams * Args.method.defaultRatio - Plan.yieldTargetMl)
       > Args.method.defaultRatio

\* C7: waterTotalMl = yieldTargetMl + round(coffeeGrams * coefficient) with
\* coefficient 2.0 (v60, chemex), 1.5 (aeropress), 2.2 (french_press) and
\* 0.8 (moka); without a target yield, yieldTargetMl = round(cups * cupSizeMl);
\* v60 with 2 cups of 240 ml gives 480 / 32 / 544 and moka with 1 cup of
\* 240 ml gives 240 / 24 / 259.
C7_WaterTotal ==
  Planned =>
    LET key == Args.method.key
        coefficient == CASE key \in {"v60", "chemex"} -> 20
                         [] key = "aeropress"         -> 15
                         [] key = "french_press"      -> 22
                         [] key = "moka"              -> 8
        absorbed == Plan.waterTotalMl - Plan.yieldTargetMl
        defaults == Args.ratio = None /\ Args.targetYieldMl = None
                      /\ Args.cupSizeMl = Ml(240)
    IN  /\ absorbed % 10 = 0
        /\ Abs(10 * absorbed - Plan.coffeeGrams * coefficient) <= 50
        /\ Args.targetYieldMl = None =>
             (/\ Plan.yieldTargetMl % 10 = 0
              /\ Abs(10 * Plan.yieldTargetMl - Args.cups * Args.cupSizeMl) <= 50)
        /\ (defaults /\ key = "v60" /\ Args.cups = 20) =>
             (/\ Plan.yieldTargetMl = Ml(480)
              /\ Plan.coffeeGrams = Ml(32)
              /\ Plan.waterTotalMl = Ml(544))
        /\ (defaults /\ key = "moka" /\ Args.cups = 10) =>
             (/\ Plan.yieldTargetMl = Ml(240)
              /\ Plan.coffeeGrams = Ml(24)
              /\ Plan.waterTotalMl = Ml(259))

\* the moka scenario has been computed
C7_Witness ==
  /\ Planned
  /\ Args.method.key = "moka"
  /\ Args.cups = 10 /\ Args.cupSizeMl = Ml(240)
  /\ Args.ratio = None /\ Args.targetYieldMl = None
  /\ Plan.waterTotalMl = Ml(259)

StepTemplate ==
  [key \in MethodKey |->
     CASE key = "v60"          -> << <<"Bloom", 0>>, <<"First pour", 45>>, <<"Second pour", 105>> >>
       [] key = "chemex"       -> << <<"Bloom", 0>>, <<"First pour", 45>>, <<"Second pour", 105>>,
                                     <<"Third pour", 165>> >>
       [] key = "aeropress"    -> << <<"Bloom", 0>>, <<"Fill & steep", 45>> >>
       [] key = "french_press" -> << <<"Fill", 0>> >>
       [] key = "moka"         -> << <<"Assemble & heat", 0>> >>]

\* C8: the step list follows the fixed per-method template of labels and
\* offsets, so offsets ascend and no plan has more than 4 steps.
C8_StepTemplate ==
  Planned =>
    LET pours == Plan.pours
    IN  /\ [i \in 1..Len(pours) |-> <<pours[i].label, pours[i].atSec>>]
             = StepTemplate[Args.method.key]
        /\ \A i \in 1..(Len(pours) - 1) : pours[i].atSec < pours[i + 1].atSec
        /\ Len(pours) <= 4

C8_Witness ==
  /\ Planned
  /\ Args.method.key = "chemex"
  /\ Len(Plan.pours) = 4

\* C9: french_press and moka plans have exactly one step, at offset 0, that
\* carries the whole waterTotalMl.
C9_SingleFullCharge ==
  (Planned /\ Args.method.key \in ImmersionKeys) =>
    /\ Len(Plan.pours) = 1
    /\ Plan.pours[1].atSec = 0
    /\ Plan.pours[1].volumeMl = Plan.waterTotalMl

C9_Witness ==
  /\ Planned
  /\ Args.method.key = "french_press"
  /\ Plan.pours[1].volumeMl > Plan.yieldTargetMl

\* C10 (as claimed): every step volume is a whole number of millilitres.
C10_WholeMillilitres ==
  Planned => \A i \in 1..Len(Plan.pours) : Plan.pours[i].volumeMl % 10 = 0

\* C11 (as claimed): in a blooming plan the "Bloom" step pours bloomMl, and
\* the later pours share waterTotalMl minus that same amount (for aeropress
\* the single later step carries all of it).
C11_BloomStepIsBloomMl ==
  (Planned /\ Plan.bloomMl /= None) =>
    /\ Plan.pours[1].volumeMl = Plan.bloomMl[1]
    /\ Args.method.key = "aeropress" =>
         Plan.pours[2].volumeMl = Plan.waterTotalMl - Plan.pours[1].volumeMl

\* C12 (as claimed): for v60 the "First pour" is within 0.5 ml of 55% of
\* waterTotalMl minus the volume of the "Bloom" step.
C12_FirstPourOfReportedRemainder ==
  (Planned /\ Args.method.key = "v60") =>
    Abs(100 * Plan.pours[2].volumeMl
          - 55 * (Plan.waterTotalMl - Plan.pours[1].volumeMl)) <= 500

CoreFields == {"coffeeGrams", "waterTotalMl", "yieldTargetMl", "bloomMl", "pours"}

\* C14: the recipe carries tempC, grind and filter exactly when the user's
\* recommend setting is true (true without a settings row); the five core
\* fields are always there and are what planBrew computed for the request.
C14_RecommendationsOnlyWhenEnabled ==
  Planned =>
    LET recommend == IF settings = None THEN TRUE ELSE settings[1].recommend
        computed  == planBrew(Args.method, Args.cups, Args.cupSizeMl,
                              Args.ratio, Args.targetYieldMl)
    IN  /\ DOMAIN Plan = CoreFields \cup (IF recommend THEN RecommendationFields ELSE {})
        /\ \A f \in CoreFields : Plan[f] = computed[f]
        /\ recommend => /\ Plan.tempC = TEMP_RANGES[Args.method.key]
                        /\ Plan.grind = GRIND_SUGGESTIONS[Args.method.key]
                        /\ Plan.filter = FILTER_SUGGESTIONS[Args.method.key]

\* a recipe returned to a user who switched recommendations off
C14_Witness ==
  /\ Planned
  /\ settings /= None
  /\ ~settings[1].recommend
  /\ "tempC" \notin DOMAIN Plan

\* C15: planBrew is called only for a body inside the schema's ranges whose
\* method exists; every other request is answered with an error (404 for a
\* missing method) and no plan, so planBrew never sees a ratio or yield <= 0.
C15_PlanOnlyAfterValidation ==
  LET inRange ==
        /\ body.methodKey \in {"v60", "chemex", "aeropress", "french_press", "moka"}
        /\ body.cups >= 5 /\ body.cups <= Ml(12)
        /\ body.ratio = None \/ (body.ratio[1] >= 8 /\ body.ratio[1] <= 20)
        /\ body.targetYieldMl = None
             \/ (body.targetYieldMl[1] >= Ml(50) /\ body.targetYieldMl[1] <= Ml(3000))
      found == body.methodKey \in brewMethod
  IN  /\ call /= None =>
           /\ inRange /\ found
           /\ Coalesce(Args.ratio, Args.method.defaultRatio) > 0
           /\ Coalesce(Args.targetYieldMl, (Args.cups * Args.cupSizeMl) \div 10) > 0
      /\ (status /= 0 /\ ~(inRange /\ found)) =>
           (status >= 400 /\ call = None /\ recipe = None)
      /\ (status /= 0 /\ inRange /\ ~found) => status = 404

\* a valid body for a method that is not in the table was answered
C15_Witness ==
  /\ status = 404
  /\ body.methodKey \in MethodKey
  /\ body.methodKey \notin brewMethod
  /\ call = None

\* --------------------------------------------------------------- sessions

ByIdOps == {"getSession", "updateSession", "deleteSession"}

\* the step answered a signed-in user about the id of session row s, which
\* belongs to somebody else
AnswersStranger(s) ==
  /\ resp'.op \in ByIdOps
  /\ resp'.id = s.id
  /\ resp'.user /= None
  /\ resp'.user[1] /= s.userId

ListsOnlyOwn ==
  (resp'.op = "getSessions" /\ resp'.user /= None)
    => \A s \in resp'.data : s.userId = resp'.user[1]

\* C16, as stated: getSession, updateSession and deleteSession on a session
\* owned by another user answer 404 and leave that session unchanged, and
\* getSessions returns only sessions whose userId is the requester's.
C16_StrangerAlways404 ==
  [][ /\ \A s \in sessions :
           AnswersStranger(s) => (resp'.status = 404 /\ s \in sessions')
      /\ ListsOnlyOwn ]_vars

\* C16, amended: the same, for requests whose body passes the route's schema;
\* an updateSession body that fails updateSessionSchema is answered 400
\* before the ownership check, and the session is left unchanged all the same.
C16_SessionsIsolatedPerUser ==
  [][ /\ \A s \in sessions :
           AnswersStranger(s) =>
             /\ s \in sessions'
             /\ resp'.data = {}
             /\ resp'.status = IF resp'.parsed THEN 404 ELSE 400
      /\ ListsOnlyOwn ]_vars

\* a well-formed update aimed at another user's session was answered 404 while
\* that session is still there, and both users own a session
C16_Witness ==
  /\ resp.op = "updateSession"
  /\ resp.parsed
  /\ resp.status = 404
  /\ resp.user /= None
  /\ \E s \in sessions : s.id = resp.id /\ s.userId /= resp.user[1]
  /\ \E s \in sessions : s.userId = resp.user[1]

\* C17: registering with an email that already belongs to a user is rejected
\* with status 400, and no second user, settings row or auth cookie is
\* created.
C17_DuplicateEmailAnswers400 ==
  [][ (resp'.op = "register" /\ \E u \in users : u.email = resp'.email)
        => /\ resp'.status = 400
           /\ users' = users
           /\ userSettings' = userSettings
           /\ resp'.cookie = None ]_vars

ProtectedOps ==
  {"me", "getSettings", "updateSettings", "reverse",
   "getSessions", "getSession", "createSession", "updateSession", "deleteSession"}

\* C18: a request without the access_token cookie to a route behind
\* authenticate is rejected with status 401 and reads or writes no user-owned
\* data.
C18_NoCookieAnswers401 ==
  [][ (resp'.op \in ProtectedOps /\ resp'.user = None)
        => /\ resp'.status = 401
           /\ resp'.data = {}
           /\ UNCHANGED <<users, userSettings, sessions>> ]_vars

\* the step answered the former owner of a deleted session about its id, and
\* the request began after the delete
AnswersFormerOwnerLater ==
  /\ resp'.op \in ByIdOps
  /\ resp'.late
  /\ resp'.user /= None
  /\ \E d \in deleted : d.id = resp'.id /\ d.userId = resp'.user[1]

\* the step answered a deleteSession whose id matches no session of the
\* requester
DeletesNothingOwned ==
  /\ resp'.op = "deleteSession"
  /\ resp'.user /= None
  /\ ~ \E s \in sessions : s.id = resp'.id /\ s.userId = resp'.user[1]

\* C19, as stated: once deleteSession has succeeded for an id, every later
\* getSession, updateSession or deleteSession for it by its former owner
\* answers 404; deleteSession on an id that matches no session of the
\* requester answers 404 and removes nothing.
C19_DeletedAlways404 ==
  [][ /\ AnswersFormerOwnerLater => resp'.status = 404
      /\ DeletesNothingOwned => (resp'.status = 404 /\ sessions' = sessions) ]_vars

\* C19, amended: the same, for requests whose body passes the route's schema;
\* an updateSession body that fails updateSessionSchema is answered 400
\* whether or not the session still exists.
C19_DeletedStaysGone ==
  [][ /\ AnswersFormerOwnerLater => resp'.status = IF resp'.parsed THEN 404 ELSE 400
      /\ DeletesNothingOwned => (resp'.status = 404 /\ sessions' = sessions) ]_vars

\* the former owner deleted a session a second time and got 404, with another
\* session still stored
C19_Witness ==
  /\ resp.op = "deleteSession"
  /\ resp.late
  /\ resp.status = 404
  /\ resp.user /= None
  /\ \E d \in deleted : d.id = resp.id /\ d.userId = resp.user[1]
  /\ sessions /= {}

\* ------------------------------------------------------------ useSettings

\* C20: updateSettings applies the update to the local settings before the
\* request reaches the server; when the request fails the settings are
\* restored to exactly the value they had when the call started, error is set
\* and the promise rejects; when it succeeds the settings become the server's
\* response.
C20_OptimisticUpdateWithRollback ==
  [][ /\ \A c \in updating' \ updating :
           /\ c.currentSettings = storeSettings
           /\ storeSettings' = Merge(storeSettings, c.updates)
           /\ serverRow' = serverRow
      /\ \A c \in updating \ updating' :
           \/ /\ settled' = "rejected"
              /\ storeSettings' = c.currentSettings
              /\ storeError' /= None
           \/ /\ settled' = "resolved"
              /\ storeSettings' = serverRow'
              /\ serverRow' = Merge(serverRow, c.updates) ]_vars

\* a call was rolled back to settings that are neither the defaults nor what
\* the server holds, while another call is still awaiting its response
C20_Witness ==
  /\ settled = "rejected"
  /\ storeError /= None
  /\ storeSettings /= defaultSettings
  /\ storeSettings /= serverRow
  /\ updating /= {}

\* ------------------------------------------------------- planBrew, again

\* C25: for every request that passes validation and each of the five
\* methods, bloomMl is strictly less than waterTotalMl and every PourStep
\* volumeMl is strictly positive.
C25_BloomBelowWaterAndPoursPositive ==
  Planned =>
    /\ Plan.bloomMl /= None => Plan.bloomMl[1] < Plan.waterTotalMl
    /\ \A i \in 1..Len(Plan.pours) : Plan.pours[i].volumeMl > 0

\* the smallest plan with the most steps: chemex, 50 ml at ratio 20
C25_Witness ==
  /\ Planned
  /\ Args.method.key = "chemex"
  /\ Plan.yieldTargetMl = MinTargetYieldMl
  /\ Args.ratio = Some(MaxRatio)
  /\ Plan.bloomMl = Some(Ml(30))
  /\ Len(Plan.pours) = 4

\* C28: when updateSettings calls overlap and complete in any order, then
\* once all of them have settled the store's settings equal the settings the
\* server holds.
C28_SettledStoreMatchesServer ==
  updating = {} => storeSettings = serverRow

\* ---------------------------------------------------------------- useAuth

\* C21: when logout settles, whether the request succeeded or failed, the
\* auth store has user = null, isAuthenticated = false, isLoading = false and
\* error = null, and the settings store holds the default settings.
C21_LogoutClearsBothStores ==
  [][ authCalls'["logout"] < authCalls["logout"]
        => /\ authUser' = None
           /\ ~isAuthenticated'
           /\ ~authLoading'
           /\ authError' = None
           /\ storeSettings' = defaultSettings ]_vars

\* a logout has just settled while another call still awaits its response
\* and the server holds settings other than the defaults
C21_Witness ==
  /\ authSettled = "logout"
  /\ authUser = None
  /\ storeSettings = defaultSettings
  /\ serverRow /= defaultSettings
  /\ SumCalls(authCalls, AuthActions) > 0

\* C30: in every reachable state of the useAuth store, isAuthenticated is
\* true if and only if user is non-null.
C30_AuthenticatedIffUser ==
  isAuthenticated <=> authUser /= None

\* signed in by a call that has just settled, a logout still awaiting
C30_Witness ==
  /\ isAuthenticated
  /\ authUser /= None
  /\ authCalls["logout"] > 0
  /\ authSettled \in {"login", "register", "checkAuth"}

\* ------------------------------------------------------------------ Timer

\* C22: when Finish is pressed, onFinish is called once with the current
\* elapsedSec and one ActualPour per schedule step, all completed: a step the
\* user marked complete carries the elapsed time it was marked at as
\* actualAtSec, every other step its scheduled time.
C22_FinishReportsEveryStep ==
  onFinishCall /= None =>
    LET reported == onFinishCall[1]
    IN  /\ lastEvent = "finish"
        /\ reported.elapsedSec = elapsedSec
        /\ Len(reported.pours) = Len(schedule)
        /\ \A i \in 1..Len(schedule) :
             /\ reported.pours[i].completed
             /\ reported.pours[i].scheduledAtSec = schedule[i].atSec
             /\ reported.pours[i].volumeMl = schedule[i].volumeMl
             /\ reported.pours[i].label = schedule[i].label
             /\ reported.pours[i].actualAtSec =
                  IF markedAt[i] /= None THEN markedAt[i][1] ELSE schedule[i].atSec

\* Finish pressed with one step marked away from its scheduled time and
\* another left unmarked
C22_Witness ==
  /\ onFinishCall /= None
  /\ \E i \in 1..Len(schedule) : markedAt[i] /= None /\ markedAt[i][1] /= schedule[i].atSec
  /\ \E i \in 1..Len(schedule) : markedAt[i] = None
  /\ elapsedSec > 0

\* C23: elapsedSec changes only by +1 on a tick, and a tick happens only
\* while isRunning and not isPaused; starting, pausing, marking a step
\* complete and finishing leave it unchanged, and only Reset sets it to 0.
C23_ElapsedOnlyTicksAndResets ==
  [][ /\ lastEvent' = "tick" => (elapsedSec' = elapsedSec + 1 /\ isRunning /\ ~isPaused)
      /\ lastEvent' \in {"start", "pause", "complete", "finish"} => elapsedSec' = elapsedSec
      /\ lastEvent' = "reset" => elapsedSec' = 0
      /\ elapsedSec' /= elapsedSec => lastEvent' \in {"tick", "reset"} ]_vars

\* the clock standing still under a pause, after it had run
C23_Witness ==
  /\ isRunning
  /\ isPaused
  /\ elapsedSec > 0
  /\ lastEvent = "complete"

\* the steps due by now, as onStep calls in schedule order at their times
DueAnnouncements ==
  LET due == {i \in 1..Len(schedule) : schedule[i].atSec <= elapsedSec}
  IN  [k \in 1..Cardinality(due) |->
         [stepIndex |-> k - 1, elapsedSec |-> schedule[k].atSec]]

\* C24: in a run from elapsed 0 without Pause, Reset or Mark Complete, every
\* step of the schedule is announced exactly once through onStep, in schedule
\* order, at the tick where elapsedSec equals its atSec, steps at offset 0
\* included.
C24_EveryStepAnnouncedOnce ==
  (~interfered /\ elapsedSec >= 1) => onStepLog = DueAnnouncements

\* C29: for a non-empty schedule currentStepIndex stays within
\* [0, schedule.length - 1], and between two Resets it never decreases.
C29_StepIndexInRangeAndMonotone ==
  [][ /\ currentStepIndex' >= 0
      /\ currentStepIndex' <= Len(schedule) - 1
      /\ lastEvent' /= "reset" => currentStepIndex' >= currentStepIndex ]_vars

\* a tick moved the index to a step after the user had marked the earlier
\* ones complete ahead of time
C29_Witness ==
  /\ lastEvent = "tick"
  /\ currentStepIndex = Len(schedule) - 1
  /\ currentStepIndex >= 2
  /\ onStepLog /= << >>
  /\ markedAt[1] /= None

\* ------------------------------------------------- BrewGuide / BrewConfig

\* the plan planBrew computes for the form's method, ratio, cup size and
\* cups or custom yield
ServerPlan ==
  planBrew(form.method, form.cups, form.cupSizeMl, Some(form.ratio),
           IF form.customYield THEN form.yieldMl ELSE None)

\* C26: for the same method, ratio, cup size and cups or custom yield, the
\* recipe BrewConfig computes in the browser (coffeeGrams, waterMl, the pour
\* schedule with its volumes) equals the plan planBrew computes on the server
\* (coffeeGrams, waterTotalMl, pours).
C26_BrowserRecipeEqualsServerPlan ==
  brewConfig /= None =>
    LET config == brewConfig[1]
    IN  /\ config.coffeeGrams = ServerPlan.coffeeGrams
        /\ config.waterMl = Hundredths(ServerPlan.waterTotalMl)
        /\ Len(config.schedule) = Len(ServerPlan.pours)
        /\ \A i \in 1..Len(config.schedule) :
             /\ config.schedule[i].atSec = ServerPlan.pours[i].atSec
             /\ config.schedule[i].label = ServerPlan.pours[i].label
             /\ config.schedule[i].volumeMl = Hundredths(ServerPlan.pours[i].volumeMl)

\* C27: for every configuration inside the BrewConfig form's ranges and every
\* elapsed time at which Finish can be pressed, the payload built by
\* handleSaveSession satisfies createSessionSchema, so the save is answered
\* 201.
C27_FinishedBrewAlwaysSaves ==
  saveStatus /= 0 =>
    /\ createSessionSchema(sessionPayload[1])
    /\ saveStatus = 201

====
